---- MODULE Spec2Model ----
(***************************************************************************)
(* The concurrent file-backed store of rusty-env (src/db/store.rs) with    *)
(* its entity model (src/src/models/mod.rs).                               *)
(*                                                                         *)
(* The Database aggregate lives behind one tokio RwLock.  A mutating call  *)
(* takes the write guard, runs its in-memory body, drops the guard, and    *)
(* then calls save(), which takes a read guard, serializes the whole       *)
(* aggregate and overwrites the backing file while still holding that      *)
(* read guard.  Callers are concurrent tasks; a caller that is waiting for *)
(* the lock is a caller whose action is not yet enabled.                   *)
(***************************************************************************)
EXTENDS Integers, Sequences, FiniteSets, TLC

VARIABLES
    db,        \* JsonStore.db: the Database aggregate inside the RwLock
    file,      \* the backing file at JsonStore.file_path
    writer,    \* the caller holding the RwLock write guard, or NoCaller
    readers,   \* the callers holding an RwLock read guard
    pc,        \* each caller's position inside its store call
    ret,       \* each caller's mutating call that is now inside save()
    json,      \* each caller's `json` local of save()
    pending,   \* update_project's new_name / updated_project locals
    now,       \* the reading of chrono::Utc::now(), in clock ticks
    nextId,    \* the number of uuids drawn so far (the next fresh uuid)
    mutSeq,    \* history: how many times the aggregate has been mutated
    live       \* history: the ids of the projects created and not deleted

vars == <<db, file, writer, readers, pc, ret, json, pending,
          now, nextId, mutSeq, live>>

(***************************************************************************)
(* Bounds and input domains.                                               *)
(***************************************************************************)
MaxMutations == 2
MaxClock == 1

Callers == {"c1", "c2"}
Names == {"a", "b"}
EnvNames == {"dev"}
Keys == {"K"}
Values == {"v1", "v2"}
\* The (value, encrypted) pairs set_variable is called with.
VarInputs == {<<"v1", FALSE>>, <<"v2", TRUE>>}
Descriptions == {"d1"}

\* Names, environments and keys that calls are probed with: those the
\* mutating calls use, and one of each that no mutating call ever uses.
ProbeNames == Names \cup {"zz"}
ProbeEnvs == EnvNames \cup {"prod"}
ProbeKeys == Keys \cup {"J"}

NoCaller == "none"

(***************************************************************************)
(* Option<T> and Result<T>.                                                *)
(***************************************************************************)
None == [some |-> FALSE]
Some(x) == [some |-> TRUE, val |-> x]
Option(S) == {None} \cup {Some(x) : x \in S}

Ok(v) == [ok |-> TRUE, val |-> v]
Err(kind, arg) == [ok |-> FALSE, err |-> kind, arg |-> arg]
Unit == "()"

(***************************************************************************)
(* std::collections::HashMap as a function whose domain is the key set.    *)
(***************************************************************************)
EmptyMap == <<>>
contains_key(m, k) == k \in DOMAIN m
insert(m, k, v) == [x \in (DOMAIN m) \cup {k} |-> IF x = k THEN v ELSE m[x]]
remove(m, k) == [x \in (DOMAIN m) \ {k} |-> m[x]]

RECURSIVE values(_)
values(m) ==
    IF DOMAIN m = {} THEN <<>>
    ELSE LET k == CHOOSE x \in DOMAIN m : TRUE
         IN  <<m[k]>> \o values(remove(m, k))

(***************************************************************************)
(* Entity model.                                                           *)
(***************************************************************************)
\* A variant that stores a masked value for an encrypted variable.
EnvVariableNew_masks(value, encrypted, t) ==
    [value |-> IF encrypted THEN "***" ELSE value, encrypted |-> encrypted,
     created_at |-> t, updated_at |-> t]

EnvVariableNew(value, encrypted, t) ==
    [value |-> value, encrypted |-> encrypted, created_at |-> t, updated_at |-> t]

\* A variant whose id is not drawn afresh.
ProjectNew_reuses_id(name, description, id, t) ==
    [id |-> 0, name |-> name, description |-> description,
     environments |-> EmptyMap, created_at |-> t, updated_at |-> t]

ProjectNew(name, description, id, t) ==
    [id |-> id, name |-> name, description |-> description,
     environments |-> EmptyMap, created_at |-> t, updated_at |-> t]

update_timestamp(project, t) == [project EXCEPT !.updated_at = t]

MetadataDefault(t) == [version |-> "1.0.0", last_backup |-> t]

DatabaseDefault(t) == [projects |-> EmptyMap, metadata |-> MetadataDefault(t)]

(***************************************************************************)
(* Persistence codec: serde_json with chrono::serde::ts_seconds, which     *)
(* writes every timestamp as whole epoch seconds and reads it back as the  *)
(* start of that second.  A clock tick is half a second.                   *)
(***************************************************************************)
ts_seconds(t) == t \div 2
from_ts_seconds(s) == s * 2

SerVariable(v) ==
    [value |-> v.value, encrypted |-> v.encrypted,
     created_at |-> ts_seconds(v.created_at), updated_at |-> ts_seconds(v.updated_at)]

SerEnvironment(e) == [k \in DOMAIN e |-> SerVariable(e[k])]

SerProject(p) ==
    [id |-> p.id, name |-> p.name, description |-> p.description,
     environments |-> [e \in DOMAIN p.environments |-> SerEnvironment(p.environments[e])],
     created_at |-> ts_seconds(p.created_at), updated_at |-> ts_seconds(p.updated_at)]

Serialize(d) ==
    [projects |-> [n \in DOMAIN d.projects |-> SerProject(d.projects[n])],
     metadata |-> [version |-> d.metadata.version,
                   last_backup |-> ts_seconds(d.metadata.last_backup)]]

DeVariable(v) ==
    [value |-> v.value, encrypted |-> v.encrypted,
     created_at |-> from_ts_seconds(v.created_at),
     updated_at |-> from_ts_seconds(v.updated_at)]

\* A variant that does not read the description back.
DeProject_drops_description(p) ==
    [id |-> p.id, name |-> p.name, description |-> None,
     environments |-> [e \in DOMAIN p.environments |->
                          [k \in DOMAIN p.environments[e] |->
                              DeVariable(p.environments[e][k])]],
     created_at |-> from_ts_seconds(p.created_at),
     updated_at |-> from_ts_seconds(p.updated_at)]

DeProject(p) ==
    [id |-> p.id, name |-> p.name, description |-> p.description,
     environments |-> [e \in DOMAIN p.environments |->
                          [k \in DOMAIN p.environments[e] |->
                              DeVariable(p.environments[e][k])]],
     created_at |-> from_ts_seconds(p.created_at),
     updated_at |-> from_ts_seconds(p.updated_at)]

Deserialize(j) ==
    [projects |-> [n \in DOMAIN j.projects |-> DeProject(j.projects[n])],
     metadata |-> [version |-> j.metadata.version,
                   last_backup |-> from_ts_seconds(j.metadata.last_backup)]]

FileAbsent == [exists |-> FALSE]
FileWith(contents) == [exists |-> TRUE, torn |-> FALSE, contents |-> contents]
FileTorn == [exists |-> TRUE, torn |-> TRUE]

(***************************************************************************)
(* Read operations, as functions of the aggregate seen under a read guard. *)
(***************************************************************************)
get_project(d, name) ==
    IF contains_key(d.projects, name)
    THEN Ok(d.projects[name])
    ELSE Err("ProjectNotFound", name)

list_projects(d) == Ok(values(d.projects))

\* A variant that looks the key up in a missing environment as in an empty one.
get_variable_env_as_empty(d, project_name, env, key) ==
    IF ~contains_key(d.projects, project_name)
    THEN Err("ProjectNotFound", project_name)
    ELSE LET project == d.projects[project_name]
             environment == IF contains_key(project.environments, env)
                            THEN project.environments[env]
                            ELSE EmptyMap
         IN  IF contains_key(environment, key)
             THEN Ok(environment[key])
             ELSE Err("VariableNotFound", key)

get_variable(d, project_name, env, key) ==
    IF ~contains_key(d.projects, project_name)
    THEN Err("ProjectNotFound", project_name)
    ELSE LET project == d.projects[project_name] IN
         IF ~contains_key(project.environments, env)
         THEN Err("EnvironmentNotFound", env)
         ELSE LET environment == project.environments[env] IN
              IF contains_key(environment, key)
              THEN Ok(environment[key])
              ELSE Err("VariableNotFound", key)

get_environment(d, project_name, env) ==
    IF ~contains_key(d.projects, project_name)
    THEN Err("ProjectNotFound", project_name)
    ELSE LET project == d.projects[project_name] IN
         IF contains_key(project.environments, env)
         THEN Ok(project.environments[env])
         ELSE Err("EnvironmentNotFound", env)

list_environments(d, project_name) ==
    IF contains_key(d.projects, project_name)
    THEN Ok(d.projects[project_name].environments)
    ELSE Err("ProjectNotFound", project_name)


(***************************************************************************)
(* The in-memory bodies of the mutating calls, run under the write guard:  *)
(* the aggregate they leave behind and the result they produce.            *)
(***************************************************************************)
\* A variant without the contains_key check: an upsert.
create_project_body_overwrites(d, name, description, id, t) ==
    LET project == [id |-> id, name |-> name, description |-> description,
                    environments |-> EmptyMap, created_at |-> t, updated_at |-> t]
    IN  [db |-> [d EXCEPT !.projects = insert(d.projects, name, project)],
         result |-> Ok(project)]

create_project_body(d, name, description, id, t) ==
    IF contains_key(d.projects, name)
    THEN [db |-> d, result |-> Err("ProjectAlreadyExists", name)]
    ELSE LET project == ProjectNew(name, description, id, t) IN
         [db |-> [d EXCEPT !.projects = insert(d.projects, name, project)],
          result |-> Ok(project)]

\* update_project lines 84-86: the description, when given, replaces the old one.
with_description(project, description) ==
    IF description.some
    THEN [project EXCEPT !.description = Some(description.val)]
    ELSE project

\* A variant that forgets to set the name field of the clone.
renamed_project_keeps_name(project, new_name, t) == [project EXCEPT !.updated_at = t]

\* A variant that builds a new Project under the new name instead of cloning.
renamed_project_fresh(project, new_name, t) ==
    [id |-> project.id, name |-> new_name, description |-> project.description,
     environments |-> EmptyMap, created_at |-> t, updated_at |-> t]

\* update_project lines 93-95: the clone that goes under the new name.
renamed_project(project, new_name, t) ==
    update_timestamp([project EXCEPT !.name = new_name], t)

\* update_project lines 77-97 and 105-107.  With `moved` the old key has been
\* removed and the insert under the new key (line 98) is still to come.
update_project_body(d, name, new_name, description, t) ==
    IF ~contains_key(d.projects, name)
    THEN [db |-> d, result |-> Err("ProjectNotFound", name), moved |-> FALSE]
    ELSE LET project == with_description(d.projects[name], description)
             described == [d EXCEPT !.projects[name] = project]
         IN
         IF new_name.some
         THEN IF new_name.val # name /\ contains_key(d.projects, new_name.val)
              THEN [db |-> described,
                    result |-> Err("ProjectAlreadyExists", new_name.val),
                    moved |-> FALSE]
              ELSE [db |-> [described EXCEPT !.projects = remove(described.projects, name)],
                    result |-> Ok(renamed_project(project, new_name.val, t)),
                    moved |-> TRUE]
         ELSE LET updated_project == update_timestamp(project, t) IN
              [db |-> [d EXCEPT !.projects[name] = updated_project],
               result |-> Ok(updated_project),
               moved |-> FALSE]

\* A variant that reports success without removing the key.
delete_project_body_keeps(d, name) ==
    IF ~contains_key(d.projects, name)
    THEN [db |-> d, result |-> Err("ProjectNotFound", name)]
    ELSE [db |-> d, result |-> Ok(Unit)]

delete_project_body(d, name) ==
    IF ~contains_key(d.projects, name)
    THEN [db |-> d, result |-> Err("ProjectNotFound", name)]
    ELSE [db |-> [d EXCEPT !.projects = remove(d.projects, name)],
          result |-> Ok(Unit)]

\* A variant that starts the project's environments afresh for a new environment.
set_variable_body_resets(d, project_name, env, key, value, encrypted, t) ==
    IF ~contains_key(d.projects, project_name)
    THEN [db |-> d, result |-> Err("ProjectNotFound", project_name)]
    ELSE LET project == d.projects[project_name]
             variable == EnvVariableNew(value, encrypted, t)
             environments ==
                 IF contains_key(project.environments, env)
                 THEN insert(project.environments, env,
                             insert(project.environments[env], key, variable))
                 ELSE insert(EmptyMap, env, insert(EmptyMap, key, variable))
         IN  [db |-> [d EXCEPT !.projects[project_name] =
                         update_timestamp([project EXCEPT !.environments = environments], t)],
              result |-> Ok(variable)]

set_variable_body(d, project_name, env, key, value, encrypted, t) ==
    IF ~contains_key(d.projects, project_name)
    THEN [db |-> d, result |-> Err("ProjectNotFound", project_name)]
    ELSE LET project == d.projects[project_name]
             environment == IF contains_key(project.environments, env)
                            THEN project.environments[env]
                            ELSE EmptyMap
             variable == EnvVariableNew(value, encrypted, t)
             environments == insert(project.environments, env,
                                    insert(environment, key, variable))
         IN  [db |-> [d EXCEPT !.projects[project_name] =
                         update_timestamp([project EXCEPT !.environments = environments], t)],
              result |-> Ok(variable)]

\* A variant that drops an environment when its last key is removed.
delete_variable_body_prunes(d, project_name, env, key, t) ==
    IF ~contains_key(d.projects, project_name)
    THEN [db |-> d, result |-> Err("ProjectNotFound", project_name)]
    ELSE LET project == d.projects[project_name] IN
         IF ~contains_key(project.environments, env)
         THEN [db |-> d, result |-> Err("EnvironmentNotFound", env)]
         ELSE IF ~contains_key(project.environments[env], key)
              THEN [db |-> d, result |-> Err("VariableNotFound", key)]
              ELSE LET environment == remove(project.environments[env], key)
                       environments ==
                           IF environment = EmptyMap
                           THEN remove(project.environments, env)
                           ELSE insert(project.environments, env, environment)
                   IN  [db |-> [d EXCEPT !.projects[project_name] =
                                   update_timestamp(
                                       [project EXCEPT !.environments = environments], t)],
                        result |-> Ok(Unit)]

\* A variant that refreshes the project's timestamp before it looks for the key.
delete_variable_body_touches(d, project_name, env, key, t) ==
    IF ~contains_key(d.projects, project_name)
    THEN [db |-> d, result |-> Err("ProjectNotFound", project_name)]
    ELSE LET project == update_timestamp(d.projects[project_name], t)
             touched == [d EXCEPT !.projects[project_name] = project]
         IN
         IF ~contains_key(project.environments, env)
         THEN [db |-> d, result |-> Err("EnvironmentNotFound", env)]
         ELSE IF ~contains_key(project.environments[env], key)
              THEN [db |-> touched, result |-> Err("VariableNotFound", key)]
              ELSE [db |-> [d EXCEPT !.projects[project_name] =
                               [project EXCEPT !.environments[env] = remove(@, key)]],
                    result |-> Ok(Unit)]

delete_variable_body(d, project_name, env, key, t) ==
    IF ~contains_key(d.projects, project_name)
    THEN [db |-> d, result |-> Err("ProjectNotFound", project_name)]
    ELSE LET project == d.projects[project_name] IN
         IF ~contains_key(project.environments, env)
         THEN [db |-> d, result |-> Err("EnvironmentNotFound", env)]
         ELSE IF ~contains_key(project.environments[env], key)
              THEN [db |-> d, result |-> Err("VariableNotFound", key)]
              ELSE [db |-> [d EXCEPT !.projects[project_name] =
                               update_timestamp(
                                   [project EXCEPT !.environments[env] = remove(@, key)],
                                   t)],
                    result |-> Ok(Unit)]

(***************************************************************************)
(* tokio::sync::RwLock: one writer or any number of readers.               *)
(***************************************************************************)
\* Variants of a lock that does not exclude readers from writers.
WriteLockFree_ignores_readers == writer = NoCaller
ReadLockFree_ignores_writer == TRUE

WriteLockFree == writer = NoCaller /\ readers = {}
ReadLockFree == writer = NoCaller

NoPending == [active |-> FALSE]
NoJson == [taken |-> FALSE]
NoRet == [set |-> FALSE]

(***************************************************************************)
(* JsonStore::new, on a file that is absent or that an earlier run of the  *)
(* program wrote: that run created project "a" and set one variable in it. *)
(***************************************************************************)
EarlierRun ==
    set_variable_body(
        create_project_body(DatabaseDefault(0), "a", None, 0, 0).db,
        "a", "dev", "K", "v1", FALSE, 0).db

\* A variant that starts from an empty aggregate when the file does not parse.
JsonStoreNew_lenient(f, t) ==
    IF ~f.exists THEN Ok(DatabaseDefault(t))
    ELSE IF f.torn THEN Ok(DatabaseDefault(t))
    ELSE Ok(Deserialize(f.contents))

JsonStoreNew(f, t) ==
    IF ~f.exists THEN Ok(DatabaseDefault(t))
    ELSE IF f.torn THEN Err("JsonError", "parse")
    ELSE Ok(Deserialize(f.contents))

Init ==
    /\ file \in {FileAbsent, FileWith(Serialize(EarlierRun))}
    /\ now = 0
    /\ db = JsonStoreNew(file, now).val
    /\ writer = NoCaller
    /\ readers = {}
    /\ pc = [c \in Callers |-> "idle"]
    /\ ret = [c \in Callers |-> NoRet]
    /\ json = [c \in Callers |-> NoJson]
    /\ pending = [c \in Callers |-> NoPending]
    /\ mutSeq = 0
    /\ live = {db.projects[n].id : n \in DOMAIN db.projects}
    /\ nextId = Cardinality(live)

\* chrono::Utc::now() advances between calls.
Tick ==
    /\ now < MaxClock
    /\ now' = now + 1
    /\ UNCHANGED <<db, file, writer, readers, pc, ret, json, pending,
                   nextId, mutSeq, live>>

\* The in-memory body of a mutating call is done: the write guard is dropped
\* and the call goes on to save().
ToSave(c, op) ==
    /\ pc' = [pc EXCEPT ![c] = "save"]
    /\ ret' = [ret EXCEPT ![c] = [set |-> TRUE, op |-> op]]
    /\ mutSeq' = mutSeq + 1

\* Caller c is at `self.db.write().await` of a mutating call: either the call
\* starts here, or it was invoked earlier and has been waiting for the guard.
AtWriteAwait(c) == pc[c] \in {"idle", "called"}

\* The call returns to its caller without save().
Return(c) ==
    /\ pc' = [pc EXCEPT ![c] = "idle"]
    /\ ret' = [ret EXCEPT ![c] = NoRet]

\* Caller c takes the write guard and runs a body that gave r.  An Err result
\* returns at once (the `?` and `return Err`), without save().
Mutate(c, op, r) ==
    /\ AtWriteAwait(c)
    /\ WriteLockFree
    /\ r.db # db \/ r.result.ok => mutSeq < MaxMutations
    /\ db' = r.db
    /\ IF r.result.ok
       THEN ToSave(c, op)
       ELSE /\ mutSeq' = IF r.db # db THEN mutSeq + 1 ELSE mutSeq
            /\ Return(c)

create_project(c, name, description) ==
    LET r == create_project_body(db, name, description, nextId, now) IN
    /\ Mutate(c, "create_project", r)
    /\ nextId' = IF r.result.ok THEN nextId + 1 ELSE nextId
    /\ live' = IF r.result.ok THEN live \cup {r.result.val.id} ELSE live
    /\ UNCHANGED <<file, writer, readers, json, pending, now>>

\* update_project up to the removal of the old key.  On the rename path the
\* write guard stays held until rename_insert.
update_project(c, name, new_name, description) ==
    LET r == update_project_body(db, name, new_name, description, now) IN
    /\ IF r.moved
       THEN /\ AtWriteAwait(c)
            /\ WriteLockFree
            /\ mutSeq < MaxMutations
            /\ db' = r.db
            /\ writer' = c
            /\ pc' = [pc EXCEPT ![c] = "rename"]
            /\ pending' = [pending EXCEPT ![c] =
                   [active |-> TRUE, name |-> name, new_name |-> new_name.val,
                    updated_project |-> r.result.val]]
            /\ ret' = [ret EXCEPT ![c] = NoRet]
            /\ UNCHANGED mutSeq
       ELSE /\ Mutate(c, "update_project", r)
            /\ UNCHANGED <<writer, pending>>
    /\ UNCHANGED <<file, readers, json, now, nextId, live>>

\* A variant that goes on to save() with the write guard still held.
rename_insert_keeps_guard(c) ==
    /\ pc[c] = "rename"
    /\ writer = c
    /\ db' = [db EXCEPT !.projects =
                 insert(db.projects, pending[c].new_name, pending[c].updated_project)]
    /\ pending' = [pending EXCEPT ![c] = NoPending]
    /\ ToSave(c, "update_project")
    /\ UNCHANGED <<file, writer, readers, json, now, nextId, live>>

\* update_project lines 98-99: the insert under the new key, then drop(db).
rename_insert(c) ==
    /\ pc[c] = "rename"
    /\ writer = c
    /\ db' = [db EXCEPT !.projects =
                 insert(db.projects, pending[c].new_name, pending[c].updated_project)]
    /\ writer' = NoCaller
    /\ pending' = [pending EXCEPT ![c] = NoPending]
    /\ ToSave(c, "update_project")
    /\ UNCHANGED <<file, readers, json, now, nextId, live>>

delete_project(c, name) ==
    LET r == delete_project_body(db, name) IN
    /\ Mutate(c, "delete_project", r)
    /\ live' = IF r.result.ok THEN live \ {db.projects[name].id} ELSE live
    /\ UNCHANGED <<file, writer, readers, json, pending, now, nextId>>

set_variable(c, project_name, env, key, value, encrypted) ==
    /\ Mutate(c, "set_variable",
              set_variable_body(db, project_name, env, key, value, encrypted, now))
    /\ UNCHANGED <<file, writer, readers, json, pending, now, nextId, live>>

delete_variable(c, project_name, env, key) ==
    /\ Mutate(c, "delete_variable",
              delete_variable_body(db, project_name, env, key, now))
    /\ UNCHANGED <<file, writer, readers, json, pending, now, nextId, live>>

(***************************************************************************)
(* save(): the read guard is taken at line 36 and lives to the end of the  *)
(* function, so it is held across serde_json::to_string_pretty and         *)
(* fs::write.                                                              *)
(***************************************************************************)
save_serialize(c) ==
    /\ pc[c] = "save"
    /\ ReadLockFree
    /\ readers' = readers \cup {c}
    /\ json' = [json EXCEPT ![c] = [taken |-> TRUE, text |-> Serialize(db)]]
    /\ pc' = [pc EXCEPT ![c] = "write"]
    /\ UNCHANGED <<db, file, writer, ret, pending, now, nextId,
                   mutSeq, live>>

\* The end of save() and of the mutating call that ran it: the read guard
\* goes out of scope and the call returns.
SaveDone(c) ==
    /\ readers' = readers \ {c}
    /\ pc' = [pc EXCEPT ![c] = "idle"]
    /\ ret' = [ret EXCEPT ![c] = NoRet]
    /\ json' = [json EXCEPT ![c] = NoJson]

\* fs::write replaced the file's contents in full: the call returns Ok(ret).
save_write_ok(c) ==
    /\ pc[c] = "write"
    /\ file' = FileWith(json[c].text)
    /\ SaveDone(c)
    /\ UNCHANGED <<db, writer, pending, now, nextId, mutSeq, live>>

\* fs::write failed before it touched the file (the open failed): the call
\* returns Err(IoError).
save_write_fail(c) ==
    /\ pc[c] = "write"
    /\ SaveDone(c)
    /\ UNCHANGED <<db, file, writer, pending, now, nextId, mutSeq, live>>

\* fs::write failed after the open had truncated the file, leaving a partial
\* write behind: the call returns Err(IoError).
save_write_torn(c) ==
    /\ pc[c] = "write"
    /\ file' = FileTorn
    /\ SaveDone(c)
    /\ UNCHANGED <<db, writer, pending, now, nextId, mutSeq, live>>

(***************************************************************************)
(* Read calls, made by any caller that is not inside another call: the     *)
(* read guard is taken, the value is cloned out of the aggregate, the      *)
(* guard is dropped and the clone is returned.  The value returned is the  *)
(* read operation applied to db.                                           *)
(***************************************************************************)
Read(result) ==
    /\ \E c \in Callers : pc[c] = "idle"
    /\ ReadLockFree
    /\ result.ok \in BOOLEAN
    /\ UNCHANGED vars

read_get_project(name) == Read(get_project(db, name))

read_list_projects == Read(list_projects(db))

read_get_variable(project_name, env, key) ==
    Read(get_variable(db, project_name, env, key))

read_get_environment(project_name, env) ==
    Read(get_environment(db, project_name, env))

read_list_environments(project_name) ==
    Read(list_environments(db, project_name))

Next ==
    \/ Tick
    \/ \E c \in Callers, name \in Names, description \in Option(Descriptions) :
           create_project(c, name, description)
    \/ \E c \in Callers, name \in Names, new_name \in Option(Names),
          description \in Option(Descriptions) :
           update_project(c, name, new_name, description)
    \/ \E c \in Callers : rename_insert(c)
    \/ \E c \in Callers, name \in Names : delete_project(c, name)
    \/ \E c \in Callers, p \in Names, e \in EnvNames, k \in Keys, vb \in VarInputs :
           set_variable(c, p, e, k, vb[1], vb[2])
    \/ \E c \in Callers, p \in Names, e \in EnvNames, k \in Keys :
           delete_variable(c, p, e, k)
    \/ \E c \in Callers : save_serialize(c)
    \/ \E c \in Callers : save_write_ok(c)
    \/ \E c \in Callers : save_write_fail(c)
    \/ \E c \in Callers : save_write_torn(c)
    \/ \E name \in Names : read_get_project(name)
    \/ read_list_projects
    \/ \E p \in Names, e \in EnvNames, k \in Keys : read_get_variable(p, e, k)
    \/ \E p \in Names, e \in EnvNames : read_get_environment(p, e)
    \/ \E p \in Names : read_list_environments(p)

Spec == Init /\ [][Next]_vars

(***************************************************************************)
(* The concurrent store on a file system where no write fails.             *)
(***************************************************************************)
NextWritesSucceed ==
    \/ Tick
    \/ \E c \in Callers, name \in Names, description \in Option(Descriptions) :
           create_project(c, name, description)
    \/ \E c \in Callers, name \in Names, new_name \in Option(Names),
          description \in Option(Descriptions) :
           update_project(c, name, new_name, description)
    \/ \E c \in Callers : rename_insert(c)
    \/ \E c \in Callers, name \in Names : delete_project(c, name)
    \/ \E c \in Callers, p \in Names, e \in EnvNames, k \in Keys, vb \in VarInputs :
           set_variable(c, p, e, k, vb[1], vb[2])
    \/ \E c \in Callers, p \in Names, e \in EnvNames, k \in Keys :
           delete_variable(c, p, e, k)
    \/ \E c \in Callers : save_serialize(c)
    \/ \E c \in Callers : save_write_ok(c)
    \/ \E name \in Names : read_get_project(name)
    \/ read_list_projects
    \/ \E p \in Names, e \in EnvNames, k \in Keys : read_get_variable(p, e, k)
    \/ \E p \in Names, e \in EnvNames : read_get_environment(p, e)
    \/ \E p \in Names : read_list_environments(p)

SpecWritesSucceed == Init /\ [][NextWritesSucceed]_vars

(***************************************************************************)
(* The process can die at any moment and be started again.  Its memory,    *)
(* its tasks and its lock die with it; the backing file stays.  fs::write  *)
(* opens the file with truncation and then writes the text, so a process   *)
(* that dies inside it leaves the file cut short.  A start runs            *)
(* JsonStore::new on the file as it is.                                    *)
(***************************************************************************)
Down == \A c \in Callers : pc[c] = "down"

\* What is left of the process once it is dead.
Dies ==
    /\ ~Down
    /\ pc' = [c \in Callers |-> "down"]
    /\ writer' = NoCaller
    /\ readers' = {}
    /\ ret' = [c \in Callers |-> NoRet]
    /\ json' = [c \in Callers |-> NoJson]
    /\ pending' = [c \in Callers |-> NoPending]
    /\ UNCHANGED <<db, now, nextId, mutSeq, live>>

\* The process dies while no fs::write is under way.
crash ==
    /\ Dies
    /\ UNCHANGED file

\* The process dies inside caller c's fs::write, after the truncation and
\* before the last byte.
crash_mid_write(c) ==
    /\ pc[c] = "write"
    /\ Dies
    /\ file' = FileTorn

\* main: JsonStore::new(config.database.path)? gave a store.
restart ==
    /\ Down
    /\ JsonStoreNew(file, now).ok
    /\ db' = JsonStoreNew(file, now).val
    /\ pc' = [c \in Callers |-> "idle"]
    /\ live' = {db'.projects[n].id : n \in DOMAIN db'.projects}
    /\ UNCHANGED <<file, writer, readers, ret, json, pending, now, nextId, mutSeq>>

\* main: JsonStore::new(config.database.path)? gave an error, and main
\* returns it: there is no store and the process ends.
restart_fails ==
    /\ Down
    /\ ~JsonStoreNew(file, now).ok
    /\ UNCHANGED vars

NextCrash ==
    \/ NextWritesSucceed
    \/ crash
    \/ \E c \in Callers : crash_mid_write(c)
    \/ restart
    \/ restart_fails

SpecCrash == Init /\ [][NextCrash]_vars

(***************************************************************************)
(* The store driven by one caller, each call running to its end before the *)
(* next starts: the program as the CLI runs it, and the aggregates the     *)
(* pure operations of the store and of the layers above it are applied to. *)
(***************************************************************************)
SerialCaller == "c1"

NextSerial ==
    \/ Tick
    \/ \E name \in Names, description \in Option(Descriptions) :
           create_project(SerialCaller, name, description)
    \/ \E name \in Names, new_name \in Option(Names),
          description \in Option(Descriptions) :
           update_project(SerialCaller, name, new_name, description)
    \/ rename_insert(SerialCaller)
    \/ \E name \in Names : delete_project(SerialCaller, name)
    \/ \E p \in Names, e \in EnvNames, k \in Keys, vb \in VarInputs :
           set_variable(SerialCaller, p, e, k, vb[1], vb[2])
    \/ \E p \in Names, e \in EnvNames, k \in Keys :
           delete_variable(SerialCaller, p, e, k)
    \/ save_serialize(SerialCaller)
    \/ save_write_ok(SerialCaller)
    \/ save_write_fail(SerialCaller)
    \/ save_write_torn(SerialCaller)
    \/ \E name \in Names : read_get_project(name)
    \/ read_list_projects
    \/ \E p \in Names, e \in EnvNames, k \in Keys : read_get_variable(p, e, k)
    \/ \E p \in Names, e \in EnvNames : read_get_environment(p, e)
    \/ \E p \in Names : read_list_environments(p)

SpecSerial == Init /\ [][NextSerial]_vars

(***************************************************************************)
(* A read call whose caller keeps what it got.  The read guard is taken,   *)
(* the value is cloned out of the aggregate (`.cloned()`, `.clone()`,      *)
(* `.cloned().collect()`), the guard is dropped and the clone is returned: *)
(* the caller then holds the clone while another caller goes on mutating.  *)
(***************************************************************************)
ReaderCaller == "c2"

ReadOps ==
    {"get_project", "list_projects", "get_variable", "get_environment",
     "list_environments"}

\* The read operation op on aggregate d; args is <<project, env, key>>.
ReadOp(d, op, args) ==
    CASE op = "get_project" -> get_project(d, args[1])
      [] op = "list_projects" -> list_projects(d)
      [] op = "get_variable" -> get_variable(d, args[1], args[2], args[3])
      [] op = "get_environment" -> get_environment(d, args[1], args[2])
      [] op = "list_environments" -> list_environments(d, args[1])

\* A variant in which the caller holds a view into the aggregate, not a clone.
held_value_borrows(c) == ReadOp(db, ret[c].op, ret[c].args)

\* The value caller c was returned and still holds.
held_value(c) == ret[c].val

read_call(c, op, args) ==
    /\ pc[c] = "idle"
    /\ ReadLockFree
    /\ pc' = [pc EXCEPT ![c] = "returned"]
    /\ ret' = [ret EXCEPT ![c] =
           [set |-> TRUE, op |-> op, args |-> args, val |-> ReadOp(db, op, args)]]
    /\ UNCHANGED <<db, file, writer, readers, json, pending, now, nextId,
                   mutSeq, live>>

\* The caller lets go of the value it was returned.
read_forget(c) ==
    /\ pc[c] = "returned"
    /\ pc' = [pc EXCEPT ![c] = "idle"]
    /\ ret' = [ret EXCEPT ![c] = NoRet]
    /\ UNCHANGED <<db, file, writer, readers, json, pending, now, nextId,
                   mutSeq, live>>

NextReads ==
    \/ Tick
    \/ \E name \in Names, description \in Option(Descriptions) :
           create_project(SerialCaller, name, description)
    \/ \E name \in Names, new_name \in Option(Names),
          description \in Option(Descriptions) :
           update_project(SerialCaller, name, new_name, description)
    \/ rename_insert(SerialCaller)
    \/ \E name \in Names : delete_project(SerialCaller, name)
    \/ \E p \in Names, e \in EnvNames, k \in Keys, vb \in VarInputs :
           set_variable(SerialCaller, p, e, k, vb[1], vb[2])
    \/ \E p \in Names, e \in EnvNames, k \in Keys :
           delete_variable(SerialCaller, p, e, k)
    \/ save_serialize(SerialCaller)
    \/ save_write_ok(SerialCaller)
    \/ \E op \in ReadOps, p \in Names, e \in EnvNames, k \in Keys :
           read_call(ReaderCaller, op, <<p, e, k>>)
    \/ read_forget(ReaderCaller)

SpecReads == Init /\ [][NextReads]_vars

(***************************************************************************)
(* Calls that wait.  A call is invoked, then waits at `self.db.write()     *)
(* .await` or `self.db.read().await` until the lock lets it in; a mutating *)
(* call that got Ok waits a second time, at the `self.db.read().await` of  *)
(* save().  The arguments are fixed when the call is invoked.  The lock    *)
(* looks at no argument and at no timestamp: the calls here pass no        *)
(* description and set one value, and the clock stands still.              *)
(***************************************************************************)
MutOps ==
    {"create_project", "update_project", "delete_project", "set_variable",
     "delete_variable"}

WaitDescriptions == {None}
WaitVarInputs == {<<"v2", TRUE>>}

\* Mutations that are invoked or half done and will each count once.
Promised ==
    Cardinality({c \in Callers :
                    \/ pc[c] = "rename"
                    \/ pc[c] = "called" /\ ret[c].op \in MutOps})

\* Caller c invokes op with args and reaches the call's first await.
call(c, op, args) ==
    /\ pc[c] = "idle"
    /\ op \in MutOps => mutSeq + Promised < MaxMutations
    /\ pc' = [pc EXCEPT ![c] = "called"]
    /\ ret' = [ret EXCEPT ![c] = [set |-> TRUE, op |-> op, args |-> args]]
    /\ UNCHANGED <<db, file, writer, readers, json, pending, now, nextId,
                   mutSeq, live>>

Called(c, op, args) ==
    /\ pc[c] = "called"
    /\ ret[c].op = op
    /\ ret[c].args = args

\* The waiting mutating call of c is given the write guard and runs its body.
write_await(c) ==
    \/ \E name \in Names, description \in WaitDescriptions :
           /\ Called(c, "create_project", <<name, description>>)
           /\ create_project(c, name, description)
    \/ \E name \in Names, new_name \in Option(Names),
          description \in WaitDescriptions :
           /\ Called(c, "update_project", <<name, new_name, description>>)
           /\ update_project(c, name, new_name, description)
    \/ \E name \in Names :
           /\ Called(c, "delete_project", <<name>>)
           /\ delete_project(c, name)
    \/ \E p \in Names, e \in EnvNames, k \in Keys, vb \in WaitVarInputs :
           /\ Called(c, "set_variable", <<p, e, k, vb>>)
           /\ set_variable(c, p, e, k, vb[1], vb[2])
    \/ \E p \in Names, e \in EnvNames, k \in Keys :
           /\ Called(c, "delete_variable", <<p, e, k>>)
           /\ delete_variable(c, p, e, k)

\* The waiting read call of c is given the read guard, clones its value out
\* of the aggregate, drops the guard and returns.
read_await(c) ==
    /\ pc[c] = "called"
    /\ ret[c].op \in ReadOps
    /\ ReadLockFree
    /\ ReadOp(db, ret[c].op, ret[c].args).ok \in BOOLEAN
    /\ Return(c)
    /\ UNCHANGED <<db, file, writer, readers, json, pending, now, nextId,
                   mutSeq, live>>

\* fs::write comes back, one way or another.
save_write(c) ==
    \/ save_write_ok(c)
    \/ save_write_fail(c)
    \/ save_write_torn(c)

NextFair ==
    \/ \E c \in Callers, name \in Names, description \in WaitDescriptions :
           call(c, "create_project", <<name, description>>)
    \/ \E c \in Callers, name \in Names, new_name \in Option(Names),
          description \in WaitDescriptions :
           call(c, "update_project", <<name, new_name, description>>)
    \/ \E c \in Callers, name \in Names : call(c, "delete_project", <<name>>)
    \/ \E c \in Callers, p \in Names, e \in EnvNames, k \in Keys,
          vb \in WaitVarInputs :
           call(c, "set_variable", <<p, e, k, vb>>)
    \/ \E c \in Callers, p \in Names, e \in EnvNames, k \in Keys :
           call(c, "delete_variable", <<p, e, k>>)
    \/ \E c \in Callers, op \in ReadOps, p \in Names, e \in EnvNames, k \in Keys :
           call(c, op, <<p, e, k>>)
    \/ \E c \in Callers : write_await(c)
    \/ \E c \in Callers : read_await(c)
    \/ \E c \in Callers : rename_insert(c)
    \/ \E c \in Callers : save_serialize(c)
    \/ \E c \in Callers : save_write(c)

(***************************************************************************)
(* The runtime polls every task that can go on, and tokio's RwLock serves  *)
(* its waiters in the order they came: a step that stays possible is       *)
(* taken.  That is weak fairness on every step of a call that is under     *)
(* way; a lock that serves in order gives the stronger SF_vars on the      *)
(* three awaits too, and whatever holds of every behaviour that is weakly  *)
(* fair holds of every behaviour that is strongly fair.  Nothing obliges a *)
(* caller to invoke a call.                                                *)
(***************************************************************************)
Fairness ==
    \A c \in Callers :
        /\ WF_vars(write_await(c))
        /\ WF_vars(read_await(c))
        /\ WF_vars(save_serialize(c))
        /\ WF_vars(rename_insert(c))
        /\ WF_vars(save_write(c))

SpecFair == Init /\ [][NextFair]_vars /\ Fairness

(***************************************************************************)
(* The value a mutating call returns once save() is over: `self.save()     *)
(* .await?` turns a failed write into the call's IoError.                  *)
(***************************************************************************)
after_save(result, saved) ==
    IF result.ok /\ ~saved THEN Err("IoError", "write") ELSE result

(***************************************************************************)
(* The HTTP layer (src/src/error.rs, src/src/routes/mod.rs).  A handler    *)
(* calls one store operation and turns its result into a response.         *)
(***************************************************************************)
ErrorKinds ==
    {"ProjectNotFound", "EnvironmentNotFound", "VariableNotFound",
     "ProjectAlreadyExists", "DatabaseError", "IoError", "JsonError",
     "InvalidInput", "ConfigError"}

\* The #[error("...")] texts of AppError.
to_string(e) ==
    CASE e.err = "ProjectNotFound" -> <<"Project not found: ", e.arg>>
      [] e.err = "EnvironmentNotFound" -> <<"Environment not found: ", e.arg>>
      [] e.err = "VariableNotFound" -> <<"Variable not found: ", e.arg>>
      [] e.err = "ProjectAlreadyExists" -> <<"Project already exists: ", e.arg>>
      [] e.err = "DatabaseError" -> <<"Database error: ", e.arg>>
      [] e.err = "IoError" -> <<"IO error: ", e.arg>>
      [] e.err = "JsonError" -> <<"JSON error: ", e.arg>>
      [] e.err = "InvalidInput" -> <<"Invalid input: ", e.arg>>
      [] e.err = "ConfigError" -> <<"Configuration error: ", e.arg>>

\* A variant that answers a name conflict as a bad request.
into_response_conflict_as_400(e) ==
    [status |-> IF e.err \in {"ProjectNotFound", "EnvironmentNotFound",
                              "VariableNotFound"} THEN 404
                ELSE IF e.err \in {"ProjectAlreadyExists", "InvalidInput"} THEN 400
                ELSE 500,
     body |-> [error |-> to_string(e)]]

into_response(e) ==
    [status |-> CASE e.err = "ProjectNotFound" -> 404
                  [] e.err = "EnvironmentNotFound" -> 404
                  [] e.err = "VariableNotFound" -> 404
                  [] e.err = "ProjectAlreadyExists" -> 409
                  [] e.err = "InvalidInput" -> 400
                  [] e.err = "DatabaseError" -> 500
                  [] e.err = "IoError" -> 500
                  [] e.err = "JsonError" -> 500
                  [] e.err = "ConfigError" -> 500,
     body |-> [error |-> to_string(e)]]

\* The response of a handler whose Ok value is (status, Json(value)), or
\* Json(value) alone with status 200; `?` sends an Err to into_response.
JsonResponse(status, result) ==
    IF result.ok THEN [status |-> status, body |-> result.val]
    ELSE into_response(result)

\* The response of a handler whose Ok value is a bare StatusCode.
StatusResponse(status, result) ==
    IF result.ok THEN [status |-> status, body |-> None]
    ELSE into_response(result)

\* The response of a handler whose Ok value is a String: 200 with that text.
TextResponse(result) ==
    IF result.ok THEN [status |-> 200, body |-> result.val]
    ELSE into_response(result)

route_create_project(result) == JsonResponse(201, result)
route_get_project(result) == JsonResponse(200, result)
route_list_projects(result) == JsonResponse(200, result)
route_update_project(result) == JsonResponse(200, result)
route_delete_project(result) == StatusResponse(204, result)
route_set_variable(result) == JsonResponse(201, result)
route_get_variable(result) == JsonResponse(200, result)
route_delete_variable(result) == StatusResponse(204, result)
route_get_environment(result) == JsonResponse(200, result)
route_list_environments(result) == JsonResponse(200, result)

\* The export helpers; a HashMap is walked in no fixed order, so the lines of
\* an export are a set.
export_dotenv(env) == {<<k, "=", env[k].value>> : k \in DOMAIN env}
export_json(env) == [k \in DOMAIN env |-> env[k].value]
export_yaml(env) == {<<k, ": ", env[k].value>> : k \in DOMAIN env}
export_docker(env) == {<<"-e ", k, "=", env[k].value>> : k \in DOMAIN env}

Formats == {"dotenv", "json", "yaml", "docker", "xml"}

export_output(environment, format) ==
    CASE format = "dotenv" -> Ok(export_dotenv(environment))
      [] format = "json" -> Ok(export_json(environment))
      [] format = "yaml" -> Ok(export_yaml(environment))
      [] format = "docker" -> Ok(export_docker(environment))
      [] OTHER -> Err("InvalidInput", <<"Unknown format: ", format>>)

route_export_project(d, project_name, env, format) ==
    LET environment == get_environment(d, project_name, env) IN
    IF ~environment.ok THEN into_response(environment)
    ELSE TextResponse(export_output(environment.val, format))

(***************************************************************************)
(* The CLI's env commands (src/src/main.rs, handle_env_command): what each *)
(* prints for the result of its store call.  An output is a set of lines,  *)
(* a line the sequence of the pieces its format string puts together.      *)
(***************************************************************************)
\* `?` on a failed store call: main returns the error, which is printed.
cli_error(result) == {<<"Error: ">> \o to_string(result)}

cli_env_set(project, key, value, env, encrypted, result) ==
    IF ~result.ok THEN cli_error(result)
    ELSE {<<"Set ", key, "=", IF encrypted THEN "***" ELSE value,
            " in ", project, "/", env>>}

cli_env_get(key, result) ==
    IF ~result.ok THEN cli_error(result)
    ELSE {<<key, "=", result.val.value>>}
             \cup IF result.val.encrypted THEN {<<"(encrypted)">>} ELSE {}

cli_env_list(project, env, result) ==
    IF ~result.ok THEN cli_error(result)
    ELSE IF result.val = EmptyMap
         THEN {<<"No variables in ", project, "/", env>>}
         ELSE {<<"Variables in ", project, "/", env, ":">>}
                  \cup {<<"  ", key, "=",
                          IF result.val[key].encrypted THEN "***"
                          ELSE result.val[key].value>> : key \in DOMAIN result.val}

(***************************************************************************)
(* Claims.                                                                 *)
(***************************************************************************)

\* C1: no two Projects returned by list_projects have the same name field,
\* and get_project(n), when it succeeds, returns a Project named n.
C1_UniqueNames ==
    LET listed == list_projects(db).val IN
    /\ \A i, j \in 1..Len(listed) : i # j => listed[i].name # listed[j].name
    /\ Len(listed) = Cardinality(DOMAIN db.projects)
    /\ \A n \in Names : get_project(db, n).ok => get_project(db, n).val.name = n

\* Two projects are listed: the one from the earlier run, renamed to "b", and
\* a new one created under its old name "a".
C1_Witness ==
    /\ DOMAIN db.projects = {"a", "b"}
    /\ db.projects["b"].id = 0
    /\ db.projects["a"].id # 0
    /\ \A c \in Callers : pc[c] # "rename"

\* C2: create_project on a name that already exists fails with
\* ProjectAlreadyExists, changes no project and starts no save, so the
\* backing file is not written.
C2_CreateExisting ==
    /\ [](\A name \in DOMAIN db.projects, description \in Option(Descriptions) :
            LET r == create_project_body(db, name, description, nextId, now) IN
            /\ r.result = Err("ProjectAlreadyExists", name)
            /\ r.db = db)
    /\ [][\A c \in Callers :
            pc[c] = "idle" =>
            \A name \in DOMAIN db.projects, description \in Option(Descriptions) :
                create_project(c, name, description)
                    => UNCHANGED <<db, file, pc, ret, json, nextId, live>>]_vars

\* create_project("a", ..) can be called on the project of the earlier run,
\* which holds a variable, at a time later than its updated_at.
C2_Witness ==
    /\ \E c \in Callers : pc[c] = "idle"
    /\ WriteLockFree
    /\ contains_key(db.projects, "a")
    /\ db.projects["a"].environments # EmptyMap
    /\ now > db.projects["a"].updated_at

Absent(d, n) ==
    LET listed == list_projects(d).val IN
    /\ \A i \in 1..Len(listed) : listed[i].name # n
    /\ get_project(d, n) = Err("ProjectNotFound", n)
    /\ list_environments(d, n) = Err("ProjectNotFound", n)
    /\ \A e \in EnvNames :
          /\ get_environment(d, n, e) = Err("ProjectNotFound", n)
          /\ \A k \in Keys :
                /\ get_variable(d, n, e, k) = Err("ProjectNotFound", n)
                /\ delete_variable_body(d, n, e, k, now) =
                       [db |-> d, result |-> Err("ProjectNotFound", n)]
                /\ \A vb \in VarInputs :
                      set_variable_body(d, n, e, k, vb[1], vb[2], now) =
                          [db |-> d, result |-> Err("ProjectNotFound", n)]

\* C4: a successful delete_project(n) leaves n absent; while n is absent it
\* is not listed and every call on it fails with ProjectNotFound; n becomes
\* a project name again only by create_project, which starts it with no
\* environments, or by a rename to n.
C4_DeleteProject ==
    /\ [](\A n \in Names : ~contains_key(db.projects, n) => Absent(db, n))
    /\ [][/\ \A c \in Callers, n \in Names :
                contains_key(db.projects, n) /\ delete_project(c, n)
                    => ~contains_key(db'.projects, n) /\ Absent(db', n)
          /\ \A n \in Names :
                ~contains_key(db.projects, n) /\ contains_key(db'.projects, n)
                    => \/ /\ \E c \in Callers, description \in Option(Descriptions) :
                                create_project(c, n, description)
                          /\ db'.projects[n].environments = EmptyMap
                       \/ \E c \in Callers :
                             rename_insert(c) /\ pending[c].new_name = n]_vars

\* The project "a" of the earlier run, whose variable is still in the file,
\* was deleted and "a" created again: the new "a" has no environments.
C4_Witness ==
    /\ file.exists /\ ~file.torn
    /\ contains_key(file.contents.projects, "a")
    /\ file.contents.projects["a"].id = 0
    /\ file.contents.projects["a"].environments # EmptyMap
    /\ contains_key(db.projects, "a")
    /\ db.projects["a"].id # 0
    /\ 0 \notin live

\* C5: a rename of A to an unused name B puts under B a Project with A's id,
\* created_at and environments and with name B, and leaves nothing under A.
C5_Rename ==
    [][/\ \A c \in Callers :
             pc[c] = "idle" /\ pc'[c] = "rename" =>
             \A A \in DOMAIN db.projects, B \in Names \ DOMAIN db.projects,
                description \in Option(Descriptions) :
             update_project(c, A, Some(B), description)
             => LET moved == pending'[c].updated_project IN
                /\ pending'[c].name = A
                /\ pending'[c].new_name = B
                /\ moved.name = B
                /\ moved.id = db.projects[A].id
                /\ moved.created_at = db.projects[A].created_at
                /\ moved.environments = db.projects[A].environments
       /\ \A c \in Callers :
             rename_insert(c) /\ pending[c].name # pending[c].new_name
             => /\ get_project(db', pending[c].name) =
                       Err("ProjectNotFound", pending[c].name)
                /\ get_project(db', pending[c].new_name) =
                       Ok(pending[c].updated_project)]_vars

\* The project of the earlier run is now under "b", with its variable.
C5_Witness ==
    /\ ~contains_key(db.projects, "a")
    /\ contains_key(db.projects, "b")
    /\ db.projects["b"].id = 0
    /\ db.projects["b"].environments # EmptyMap
    /\ \A c \in Callers : pc[c] # "rename"

\* C6: update_project(name, Some(new_name), description) with new_name taken
\* by another project fails and applies none of the requested change: the
\* aggregate and the backing file are as before the call.
C6_ConflictAppliesNothing ==
    /\ [](\A name \in DOMAIN db.projects, new_name \in DOMAIN db.projects,
             description \in Option(Descriptions) :
             new_name # name =>
                 update_project_body(db, name, Some(new_name), description, now).result
                     = Err("ProjectAlreadyExists", new_name))
    /\ [][\A c \in Callers, name \in Names, new_name \in Names,
             description \in Option(Descriptions) :
             /\ new_name # name
             /\ contains_key(db.projects, name)
             /\ contains_key(db.projects, new_name)
             /\ update_project(c, name, Some(new_name), description)
             => UNCHANGED <<db, file>>]_vars

\* C7: when fs::write succeeds, the call is one that has done its in-memory
\* mutation, and what is now in the file is the serialization of the
\* aggregate as it is at that moment, which no other caller has changed
\* since save() serialized it.
C7_SaveWritesCurrent ==
    /\ [](\A c \in Callers :
            /\ pc[c] \in {"save", "write"} => ret[c].set /\ mutSeq > 0
            /\ pc[c] = "write" => json[c].taken /\ json[c].text = Serialize(db))
    /\ [][\A c \in Callers :
            save_write_ok(c) => file' = FileWith(Serialize(db'))]_vars

\* Two mutating calls overlapped; the save of one has written the file, with
\* both mutations in it, while the other is still inside its fs::write.
C7_Witness ==
    /\ mutSeq = 2
    /\ file = FileWith(Serialize(db))
    /\ DOMAIN db.projects = {"a", "b"}
    /\ \E c \in Callers : pc[c] = "write"

\* C8: a failed file write rolls nothing back in memory and leaves the
\* backing file with its previous content.
C8_FailedWriteKeepsFile ==
    [][\A c \in Callers :
          save_write_fail(c) \/ save_write_torn(c) => db' = db /\ file' = file]_vars

\* C9: whenever a reader can take the read guard, every project that has
\* been created and not deleted is listed exactly once and is found by
\* get_project under exactly one name.
C9_RenameAtomic ==
    ReadLockFree =>
        \A i \in live :
            LET listed == list_projects(db).val IN
            /\ Cardinality({k \in 1..Len(listed) : listed[k].id = i}) = 1
            /\ Cardinality({n \in Names : /\ get_project(db, n).ok
                                          /\ get_project(db, n).val.id = i}) = 1

\* A rename of the earlier run's project from "a" to "b" is done in memory
\* and its save has not started: readers can run and see it under "b" only.
C9_Witness ==
    /\ ReadLockFree
    /\ \E c \in Callers :
          pc[c] = "save" /\ ret[c].op = "update_project" /\ pc[CHOOSE o \in Callers : o # c] = "idle"
    /\ ~contains_key(db.projects, "a")
    /\ contains_key(db.projects, "b")
    /\ db.projects["b"].id = 0

\* C10 as stated: no guard of the lock, write or read, is held while a file
\* write is in progress.
C10_NoLockDuringWrite ==
    \A c \in Callers : pc[c] = "write" => writer = NoCaller /\ readers = {}

\* C10 as amended: the write guard is dropped before save() starts, and the
\* file is written under the read guard of save(): during a file write no
\* write guard is held and the aggregate does not change.
C10_WriteUnderReadGuard ==
    /\ [](\A c \in Callers :
            /\ pc[c] = "write" => c \in readers /\ writer = NoCaller
            /\ pc[c] = "save" => c \notin readers /\ writer # c
            /\ writer = c <=> pc[c] = "rename")
    /\ [][(\E c \in Callers : pc[c] = "write") => db' = db]_vars

\* One caller is inside fs::write while the other is idle and the bound on
\* mutations has not been reached: a mutating call would have to wait.
C10_Witness ==
    \E c \in Callers :
        /\ pc[c] = "write"
        /\ pc[CHOOSE o \in Callers : o # c] = "idle"
        /\ mutSeq < MaxMutations

\* C11: get_variable(p, e, k) and delete_variable(p, e, k) fail with
\* ProjectNotFound when p is absent, whatever e and k are; else with
\* EnvironmentNotFound when e is absent in p, whatever k is; else with
\* VariableNotFound when k is absent in e; and succeed exactly when all
\* three exist.
C11_ErrorOrder ==
    \A p \in ProbeNames, e \in ProbeEnvs, k \in ProbeKeys :
        LET got == get_variable(db, p, e, k)
            deleted == delete_variable_body(db, p, e, k, now).result
            hasP == contains_key(db.projects, p)
            hasE == hasP /\ contains_key(db.projects[p].environments, e)
            hasK == hasE /\ contains_key(db.projects[p].environments[e], k)
        IN  /\ ~hasP => got = Err("ProjectNotFound", p) /\ deleted = got
            /\ hasP /\ ~hasE => got = Err("EnvironmentNotFound", e) /\ deleted = got
            /\ hasE /\ ~hasK => got = Err("VariableNotFound", k) /\ deleted = got
            /\ hasK <=> got.ok
            /\ hasK <=> deleted.ok

\* delete_variable has emptied the environment of "a", which is still there,
\* and "b" is a project without environments: each of the three errors and
\* none of the successes is what a call can get.
C11_Witness ==
    /\ contains_key(db.projects, "a")
    /\ contains_key(db.projects["a"].environments, "dev")
    /\ db.projects["a"].environments["dev"] = EmptyMap
    /\ contains_key(db.projects, "b")
    /\ db.projects["b"].environments = EmptyMap
    /\ \A c \in Callers : pc[c] = "idle"

\* C12: delete_variable(p, e, k) with p and e present and k not a key of e
\* fails with VariableNotFound and changes nothing: not the environment, not
\* the project's updated_at, not the backing file; no save is started.
C12_DeleteMissingKey ==
    /\ [](\A p \in DOMAIN db.projects :
            \A e \in DOMAIN db.projects[p].environments :
               \A k \in ProbeKeys \ DOMAIN db.projects[p].environments[e] :
                  delete_variable_body(db, p, e, k, now) =
                      [db |-> db, result |-> Err("VariableNotFound", k)])
    /\ [][\A c \in Callers :
            pc[c] = "idle" =>
            \A p \in DOMAIN db.projects :
               \A e \in DOMAIN db.projects[p].environments :
                  \A k \in Keys \ DOMAIN db.projects[p].environments[e] :
                     delete_variable(c, p, e, k)
                         => UNCHANGED <<db, file, pc, ret, json>>]_vars

\* An environment that lost its only key earlier, at a time when the clock
\* has moved past the project's updated_at and a caller can take the lock.
C12_Witness ==
    \E p \in DOMAIN db.projects :
        /\ contains_key(db.projects[p].environments, "dev")
        /\ ~contains_key(db.projects[p].environments["dev"], "K")
        /\ now > db.projects[p].updated_at
        /\ WriteLockFree
        /\ \E c \in Callers : pc[c] = "idle"

\* C13: set_variable(p, e, k, v, b) on an existing project p without an
\* environment e creates e holding exactly the key k and changes nothing
\* else but p's updated_at: p's other environments and fields, the other
\* projects and the metadata are as before.  On an absent p it fails with
\* ProjectNotFound and leaves the aggregate as it was.
C13_SetCreatesEnvironment ==
    \A p \in ProbeNames, e \in ProbeEnvs, k \in ProbeKeys, vb \in VarInputs :
        LET r == set_variable_body(db, p, e, k, vb[1], vb[2], now) IN
        IF ~contains_key(db.projects, p)
        THEN r = [db |-> db, result |-> Err("ProjectNotFound", p)]
        ELSE ~contains_key(db.projects[p].environments, e) =>
             LET old == db.projects[p]
                 new == r.db.projects[p]
             IN  /\ r.result.ok
                 /\ DOMAIN r.db.projects = DOMAIN db.projects
                 /\ \A q \in DOMAIN db.projects \ {p} : r.db.projects[q] = db.projects[q]
                 /\ r.db.metadata = db.metadata
                 /\ DOMAIN new.environments = DOMAIN old.environments \cup {e}
                 /\ DOMAIN new.environments[e] = {k}
                 /\ \A x \in DOMAIN old.environments :
                       new.environments[x] = old.environments[x]
                 /\ new = [old EXCEPT !.environments = new.environments,
                                      !.updated_at = now]

\* set_variable has created the environment "dev" of a project made in this
\* run, next to the untouched project of the earlier run, which has an
\* environment that a further set_variable on "prod" must leave alone.
C13_Witness ==
    /\ contains_key(db.projects, "a")
    /\ db.projects["a"] = Deserialize(Serialize(EarlierRun)).projects["a"]
    /\ contains_key(db.projects, "b")
    /\ DOMAIN db.projects["b"].environments = {"dev"}
    /\ DOMAIN db.projects["b"].environments["dev"] = {"K"}
    /\ db.projects["b"].updated_at > db.projects["b"].created_at

\* The ids of the projects of the aggregate and of a project that is between
\* the two keys of a rename.
IdsInUse ==
    {db.projects[n].id : n \in DOMAIN db.projects}
        \cup {pending[c].updated_project.id : c \in {x \in Callers : pending[x].active}}

\* C14: a project's id is assigned by create_project and no update_project
\* (rename, rename to its own name, description change), set_variable or
\* delete_variable changes it; every create_project draws an id that no
\* project has or had, also under a name that was deleted before.
C14_IdStable ==
    /\ [](/\ \A n \in DOMAIN db.projects, m \in DOMAIN db.projects :
                n # m => db.projects[n].id # db.projects[m].id
          /\ \A i \in IdsInUse : i < nextId
          /\ \A c \in Callers :
                pending[c].active =>
                    \A n \in DOMAIN db.projects :
                        db.projects[n].id # pending[c].updated_project.id)
    /\ [][/\ nextId' >= nextId
          /\ \A n \in DOMAIN db.projects \cap DOMAIN db'.projects :
                db'.projects[n].id = db.projects[n].id
          /\ \A c \in Callers :
                /\ pc[c] = "idle" /\ pc'[c] = "rename" =>
                       pending'[c].updated_project.id = db.projects[pending'[c].name].id
                /\ pc[c] = "rename" /\ pc'[c] # "rename" =>
                       db'.projects[pending[c].new_name].id =
                           pending[c].updated_project.id
          /\ \A n \in DOMAIN db'.projects \ DOMAIN db.projects :
                \/ \E c \in Callers :
                      pc[c] = "rename" /\ pc'[c] # "rename" /\ pending[c].new_name = n
                \/ /\ db'.projects[n].id = nextId
                   /\ nextId' = nextId + 1]_vars

\* The project of the earlier run was renamed to "b" and kept its id, and
\* the name "a" was then taken by a new project with another id.
C14_Witness ==
    /\ contains_key(db.projects, "b")
    /\ db.projects["b"].id = 0
    /\ db.projects["b"].name = "b"
    /\ contains_key(db.projects, "a")
    /\ db.projects["a"].id = 1

\* C15: with a clock that never goes back, a project's updated_at never
\* decreases, and whenever anything of the project differs from what it was
\* a step earlier its updated_at is the time of that step; created_at never
\* changes and created_at <= updated_at always.
C15_UpdatedAtTracksChange ==
    /\ [](\A n \in DOMAIN db.projects :
            db.projects[n].created_at <= db.projects[n].updated_at)
    /\ [][\A n \in DOMAIN db.projects \cap DOMAIN db'.projects :
            LET old == db.projects[n]
                new == db'.projects[n]
            IN  /\ new.created_at = old.created_at
                /\ new.updated_at >= old.updated_at
                /\ new # old => new.updated_at = now]_vars

\* The start of the second that clock reading t lies in (a tick is half a
\* second).
WholeSecond(t) == t - (t % 2)

SameVariable(v, w) ==
    /\ w.value = v.value
    /\ w.encrypted = v.encrypted
    /\ w.created_at = WholeSecond(v.created_at)
    /\ w.updated_at = WholeSecond(v.updated_at)

SameProject(p, q) ==
    /\ q.id = p.id
    /\ q.name = p.name
    /\ q.description = p.description
    /\ q.created_at = WholeSecond(p.created_at)
    /\ q.updated_at = WholeSecond(p.updated_at)
    /\ DOMAIN q.environments = DOMAIN p.environments
    /\ \A e \in DOMAIN p.environments :
          /\ DOMAIN q.environments[e] = DOMAIN p.environments[e]
          /\ \A k \in DOMAIN p.environments[e] :
                SameVariable(p.environments[e][k], q.environments[e][k])

\* C16: for every aggregate the store reaches, a store constructed from the
\* file a successful save of it writes holds the same projects, environments
\* and variables with timestamps at second granularity, answers every read
\* as the first store does, and saves to the same file contents; the same
\* is true of the file that is on disk, whenever it is whole.
C16_RoundTrip ==
    /\ LET text == Serialize(db)
           loaded == JsonStoreNew(FileWith(text), now)
       IN  /\ loaded.ok
           /\ DOMAIN loaded.val.projects = DOMAIN db.projects
           /\ \A n \in DOMAIN db.projects :
                 SameProject(db.projects[n], loaded.val.projects[n])
           /\ Len(list_projects(loaded.val).val) = Len(list_projects(db).val)
           /\ \A p \in ProbeNames, e \in ProbeEnvs, k \in ProbeKeys :
                 /\ get_project(loaded.val, p).ok = get_project(db, p).ok
                 /\ list_environments(loaded.val, p).ok = list_environments(db, p).ok
                 /\ get_environment(loaded.val, p, e).ok = get_environment(db, p, e).ok
                 /\ get_variable(loaded.val, p, e, k).ok = get_variable(db, p, e, k).ok
                 /\ ~get_project(db, p).ok =>
                        get_project(loaded.val, p) = get_project(db, p)
                 /\ ~get_environment(db, p, e).ok =>
                        get_environment(loaded.val, p, e) = get_environment(db, p, e)
                 /\ ~get_variable(db, p, e, k).ok =>
                        get_variable(loaded.val, p, e, k) = get_variable(db, p, e, k)
                 /\ get_variable(db, p, e, k).ok =>
                        SameVariable(get_variable(db, p, e, k).val,
                                     get_variable(loaded.val, p, e, k).val)
           /\ Serialize(loaded.val) = text
    /\ file.exists /\ ~file.torn =>
           /\ JsonStoreNew(file, now).ok
           /\ Serialize(JsonStoreNew(file, now).val) = file.contents

\* The file was written by a save of this run, from an aggregate holding a
\* described project whose timestamps are not at the start of a second.
C16_Witness ==
    /\ file = FileWith(Serialize(db))
    /\ mutSeq > 0
    /\ \E n \in DOMAIN db.projects :
          /\ db.projects[n].description = Some("d1")
          /\ db.projects[n].updated_at # WholeSecond(db.projects[n].updated_at)
    /\ \A c \in Callers : pc[c] = "idle"

\* The status the HTTP interface promises for each kind of error.
StatusOfKind(kind) ==
    IF kind \in {"ProjectNotFound", "EnvironmentNotFound", "VariableNotFound"} THEN 404
    ELSE IF kind = "ProjectAlreadyExists" THEN 409
    ELSE IF kind = "InvalidInput" THEN 400
    ELSE 500

\* The response made of a failed result has the status of the error's kind
\* and the body {"error": message}.
ErrorMapped(result, response) ==
    ~result.ok =>
        /\ response.status = StatusOfKind(result.err)
        /\ response.body = [error |-> to_string(result)]

\* C17: on every route a store error becomes the status of its kind (404
\* for the three NotFound kinds, 409 for ProjectAlreadyExists, 400 for
\* InvalidInput, 500 for IO, JSON and configuration errors) with the body
\* {"error": message}; export answers an unknown format with 400.  A
\* mutating call's result is taken with its save succeeding and failing.
C17_ErrorStatus ==
    /\ \A n \in ProbeNames :
          /\ \A d \in Option(Descriptions) :
                LET r == create_project_body(db, n, d, nextId, now).result IN
                \A s \in BOOLEAN :
                   ErrorMapped(after_save(r, s), route_create_project(after_save(r, s)))
          /\ ErrorMapped(get_project(db, n), route_get_project(get_project(db, n)))
          /\ \A m \in Option(Names), d \in Option(Descriptions) :
                LET r == update_project_body(db, n, m, d, now).result IN
                \A s \in BOOLEAN :
                   ErrorMapped(after_save(r, s), route_update_project(after_save(r, s)))
          /\ LET r == delete_project_body(db, n).result IN
             \A s \in BOOLEAN :
                ErrorMapped(after_save(r, s), route_delete_project(after_save(r, s)))
          /\ ErrorMapped(list_environments(db, n),
                         route_list_environments(list_environments(db, n)))
          /\ \A e \in ProbeEnvs :
                /\ ErrorMapped(get_environment(db, n, e),
                               route_get_environment(get_environment(db, n, e)))
                /\ \A k \in ProbeKeys :
                      /\ \A vb \in VarInputs :
                            LET r == set_variable_body(db, n, e, k, vb[1], vb[2],
                                                       now).result IN
                            \A s \in BOOLEAN :
                               ErrorMapped(after_save(r, s),
                                           route_set_variable(after_save(r, s)))
                      /\ ErrorMapped(get_variable(db, n, e, k),
                                     route_get_variable(get_variable(db, n, e, k)))
                      /\ LET r == delete_variable_body(db, n, e, k, now).result IN
                         \A s \in BOOLEAN :
                            ErrorMapped(after_save(r, s),
                                        route_delete_variable(after_save(r, s)))
    /\ ErrorMapped(list_projects(db), route_list_projects(list_projects(db)))
    /\ \A n \in ProbeNames, e \in ProbeEnvs, f \in Formats :
          LET environment == get_environment(db, n, e)
              response == route_export_project(db, n, e, f)
          IN  IF ~environment.ok
              THEN ErrorMapped(environment, response)
              ELSE IF f \in {"dotenv", "json", "yaml", "docker"}
                   THEN response.status = 200
                   ELSE /\ response.status = 400
                        /\ response.body =
                               [error |-> <<"Invalid input: ", <<"Unknown format: ", f>>>>]
    /\ \A kind \in ErrorKinds :
          ErrorMapped(Err(kind, "x"), into_response(Err(kind, "x")))

\* Two projects exist, so that a create and a rename meet a taken name, one
\* of them without the environment the other has, while a caller is inside
\* the file write of its save, which can fail.
C17_Witness ==
    /\ DOMAIN db.projects = {"a", "b"}
    /\ \E n \in {"a", "b"}, m \in {"a", "b"} :
          /\ contains_key(db.projects[n].environments, "dev")
          /\ ~contains_key(db.projects[m].environments, "dev")
    /\ \E c \in Callers : pc[c] = "write"
    /\ route_update_project(
           update_project_body(db, "a", Some("b"), None, now).result).status = 409

\* C18: a successful response is 201 Created only for a creation, 204 No
\* Content for the deletion of a project or of a variable, and 200 OK for a
\* read or an update: PUT of a project answers 200, and PUT of a variable
\* answers 201 when the key is new in the environment and 200 when the key
\* was there already.
C18_SuccessStatus ==
    \A n \in DOMAIN db.projects :
        /\ \A d \in Option(Descriptions) :
              route_create_project(
                  create_project_body([db EXCEPT !.projects = remove(@, n)],
                                      n, d, nextId, now).result
              ).status = 201
        /\ route_get_project(get_project(db, n)).status = 200
        /\ route_list_projects(list_projects(db)).status = 200
        /\ \A d \in Option(Descriptions) :
              route_update_project(
                  update_project_body(db, n, None, d, now).result).status = 200
        /\ route_delete_project(delete_project_body(db, n).result).status = 204
        /\ route_list_environments(list_environments(db, n)).status = 200
        /\ \A e \in ProbeEnvs, k \in ProbeKeys, vb \in VarInputs :
              LET existed == get_variable(db, n, e, k).ok
                  response == route_set_variable(
                      set_variable_body(db, n, e, k, vb[1], vb[2], now).result)
              IN  response.status = IF existed THEN 200 ELSE 201
        /\ \A e \in DOMAIN db.projects[n].environments :
              /\ route_get_environment(get_environment(db, n, e)).status = 200
              /\ \A k \in DOMAIN db.projects[n].environments[e] :
                    /\ route_get_variable(get_variable(db, n, e, k)).status = 200
                    /\ route_delete_variable(
                           delete_variable_body(db, n, e, k, now).result).status = 204

\* The pieces of text an output shows.
Shown(output) == UNION {{line[i] : i \in 1..Len(line)} : line \in output}

\* C19: env set, env get and env list never show the plain value of a
\* variable whose encrypted flag is true; the backing file, the API and the
\* exports carry every value as it was given, encrypted or not.
C19_CliMasksEncrypted ==
    /\ \A p \in ProbeNames, e \in ProbeEnvs, k \in ProbeKeys, vb \in VarInputs :
          LET r == set_variable_body(db, p, e, k, vb[1], vb[2], now).result IN
          \A s \in BOOLEAN :
             vb[2] => vb[1] \notin
                 Shown(cli_env_set(p, k, vb[1], e, vb[2], after_save(r, s)))
    /\ \A p \in DOMAIN db.projects :
          \A e \in DOMAIN db.projects[p].environments :
             LET environment == db.projects[p].environments[e] IN
             \A k \in DOMAIN environment :
                LET v == environment[k] IN
                /\ v.encrypted =>
                       /\ v.value \notin Shown(cli_env_get(k, get_variable(db, p, e, k)))
                       /\ v.value \notin
                              Shown(cli_env_list(p, e, get_environment(db, p, e)))
                /\ Serialize(db).projects[p].environments[e][k].value = v.value
                /\ route_get_variable(get_variable(db, p, e, k)).body.value = v.value
                /\ route_get_environment(get_environment(db, p, e)).body[k].value
                       = v.value
                /\ <<k, "=", v.value>> \in export_dotenv(environment)
                /\ export_json(environment)[k] = v.value
                /\ <<k, ": ", v.value>> \in export_yaml(environment)
                /\ <<"-e ", k, "=", v.value>> \in export_docker(environment)

\* C20: when no file write fails, in every interleaving of the callers the
\* backing file is the serialization of the aggregate whenever the aggregate
\* has been changed and every call has returned, and every write puts into
\* the file the aggregate as it is at that time, never an older one.
C20_FileFollowsAggregate ==
    /\ []((mutSeq > 0 /\ \A c \in Callers : pc[c] = "idle")
              => file = FileWith(Serialize(db)))
    /\ [][file' # file => file' = FileWith(Serialize(db'))]_vars

\* C24: the environment names of a project that is not deleted only grow,
\* through every set_variable, delete_variable and update_project, a rename
\* included; so after delete_variable has removed the last variable of e,
\* get_environment(p, e) succeeds with an empty mapping and
\* get_variable(p, e, k) fails with VariableNotFound.
C24_EnvironmentsOnlyGrow ==
    /\ [](\A p \in DOMAIN db.projects :
            \A e \in DOMAIN db.projects[p].environments :
               db.projects[p].environments[e] = EmptyMap =>
                   /\ get_environment(db, p, e) = Ok(EmptyMap)
                   /\ \A k \in ProbeKeys :
                         get_variable(db, p, e, k) = Err("VariableNotFound", k))
    /\ [][/\ \A n \in DOMAIN db.projects, m \in DOMAIN db'.projects :
                db'.projects[m].id = db.projects[n].id =>
                    DOMAIN db.projects[n].environments
                        \subseteq DOMAIN db'.projects[m].environments
          /\ \A c \in Callers :
                /\ pc[c] = "idle" /\ pc'[c] = "rename" =>
                       DOMAIN db.projects[pending'[c].name].environments
                           \subseteq DOMAIN pending'[c].updated_project.environments
                /\ pc[c] = "rename" /\ pc'[c] # "rename" =>
                       DOMAIN pending[c].updated_project.environments
                           \subseteq DOMAIN db'.projects[pending[c].new_name].environments
                /\ pc[c] = "idle" /\ pc'[c] = "save" =>
                       \A p \in DOMAIN db.projects, e \in EnvNames, k \in Keys :
                          delete_variable(c, p, e, k) =>
                              /\ get_environment(db', p, e).ok
                              /\ get_variable(db', p, e, k)
                                     = Err("VariableNotFound", k)]_vars

\* The project of the earlier run was renamed and its only variable was then
\* deleted: it still has its environment, now empty.
C24_Witness ==
    /\ contains_key(db.projects, "b")
    /\ db.projects["b"].id = 0
    /\ DOMAIN db.projects["b"].environments = {"dev"}
    /\ db.projects["b"].environments["dev"] = EmptyMap

\* C21: a mutating call is atomic for the other store calls: the aggregate
\* changes only in steps that exclude every reader, and while a caller is
\* inside a mutating body no other caller's call starts, proceeds or
\* returns.  It is not atomic for a crash: a process that dies inside the
\* file write of a save leaves a file that is the serialization of no
\* aggregate, neither the one before the mutation nor the one after it, and
\* JsonStore::new on such a file fails, so that no store comes up; on an
\* absent file JsonStore::new yields an empty aggregate.
C21_CrashTearsFile ==
    /\ [](/\ \A c \in Callers : pc[c] = "rename" => writer = c /\ readers = {}
          /\ file.exists /\ file.torn => ~JsonStoreNew(file, now).ok
          /\ ~file.exists =>
                 /\ JsonStoreNew(file, now).ok
                 /\ JsonStoreNew(file, now).val.projects = EmptyMap)
    /\ [][/\ db' # db /\ ~Down => readers = {}
          /\ \A c \in Callers :
                /\ writer = c =>
                       \A o \in Callers \ {c} : pc'[o] \in {pc[o], "down"}
                /\ crash_mid_write(c) =>
                       /\ file' # FileWith(Serialize(db))
                       /\ file' # FileWith(json[c].text)
                       /\ file' # file
                       /\ ~JsonStoreNew(file', now).ok
          /\ Down /\ file.exists /\ file.torn => Down'
          /\ Down /\ ~Down' =>
                 /\ JsonStoreNew(file, now).ok
                 /\ db' = JsonStoreNew(file, now).val
                 /\ ~file.exists => db'.projects = EmptyMap]_vars

\* The process died inside the write of a save, the file is cut short, and
\* the process cannot be started.
C21_Witness ==
    /\ Down
    /\ file = FileTorn
    /\ mutSeq > 0
    /\ ENABLED restart_fails

\* C23: get_project, list_projects, get_variable, get_environment and
\* list_environments, whether they succeed or fail, leave the aggregate
\* with all its timestamps and the backing file as they were and start no
\* save; what they return is a copy: it is the read's value of the aggregate
\* at the time of the call, and no later mutation changes it while the
\* caller holds it.
C23_ReadsChangeNothing ==
    [][\A c \in Callers :
          /\ pc[c] = "idle" /\ pc'[c] = "returned" =>
                 /\ UNCHANGED <<db, file, writer, readers, json, pending,
                                nextId, mutSeq, live>>
                 /\ held_value(c)' = ReadOp(db, ret'[c].op, ret'[c].args)
          /\ pc[c] = "returned" =>
                 /\ pc'[c] \in {"returned", "idle"}
                 /\ pc'[c] = "idle" => UNCHANGED <<db, file, json, mutSeq>>
                 /\ pc'[c] = "returned" => held_value(c)' = held_value(c)]_vars

\* The reader holds the project it got from get_project("a") and the reads
\* of the aggregate no longer give that value: "a" has been changed since.
C23_Witness ==
    /\ pc[ReaderCaller] = "returned"
    /\ ret[ReaderCaller].op = "get_project"
    /\ held_value(ReaderCaller).ok
    /\ held_value(ReaderCaller).val.name = "a"
    /\ get_project(db, "a").ok
    /\ get_project(db, "a") # held_value(ReaderCaller)

(***************************************************************************)
(* C22.  Under fair scheduling and a fair reader/writer lock, every        *)
(* invoked store operation eventually returns a result or an error, in     *)
(* every interleaving of concurrent callers: a call that is invoked, that  *)
(* waits for a guard, that holds the write guard or that is inside save()  *)
(* is later back with its caller; and a mutating call has released its     *)
(* write guard before its save() asks for the read guard, so no call waits *)
(* for itself.                                                             *)
(***************************************************************************)
\* A mutating call that is inside save() holds no write guard.
GuardDroppedBeforeSave ==
    \A c \in Callers : pc[c] \in {"save", "write"} => writer # c

C22_EveryCallReturns ==
    /\ []GuardDroppedBeforeSave
    /\ \A c \in Callers : (pc[c] # "idle") ~> (pc[c] = "idle")

\* The save() of one caller waits for the read guard while the other caller
\* holds the write guard, and that other caller's call was itself invoked
\* and let in after the first one's body.
C22_Witness ==
    \E c \in Callers, o \in Callers :
        /\ c # o
        /\ pc[c] = "save"
        /\ pc[o] = "rename"
        /\ writer = o
        /\ ~ENABLED save_serialize(c)
        /\ ENABLED rename_insert(o)
====
